---- MODULE Spec2Model ----
(***************************************************************************)
(* invoice_pricing.py: subtotal -> discount -> tax -> total.               *)
(*                                                                         *)
(* Python floats are modelled as fixed-point numbers with Scale steps per  *)
(* unit and a finite range: a result beyond FloatMax becomes an infinity,  *)
(* inf - inf and inf * 0 become NaN, every comparison with NaN is false,   *)
(* and a product is rounded to the nearest representable value, ties to    *)
(* even, as IEEE 754 arithmetic does.                                      *)
(***************************************************************************)
EXTENDS Integers, Sequences, FiniteSets

\* ---- bounds of the model ----
MaxWhole == 3       \* largest finite float, in whole units
MaxPrice == 2       \* prices are -1..MaxPrice steps of PriceStep
MaxQty == 2         \* quantities are -1..MaxQty
MaxItems == 2       \* longest item list
PctMargin == 3      \* percents tried beyond both ends of [0.0, 0.50]

\* ---- the float model ----
Scale == 10 * 10 * 10
FloatMax == MaxWhole * Scale

Fin(n) == [k |-> "fin", v |-> n]
PInf == [k |-> "inf", v |-> 1]
NInf == [k |-> "inf", v |-> -1]
NaN == [k |-> "nan", v |-> 0]

IsNaN(a) == a.k = "nan"
IsInf(a) == a.k = "inf"

\* a float's result: out of range becomes an infinity
Norm(n) == IF n > FloatMax THEN PInf ELSE IF n < -FloatMax THEN NInf ELSE Fin(n)

\* the position of a non-NaN float on the extended line
Ord(a) == IF IsInf(a) THEN a.v * (FloatMax + 1) ELSE a.v

Sign(a) == IF a.v > 0 THEN 1 ELSE IF a.v < 0 THEN -1 ELSE 0

\* n / d rounded to the nearest integer, ties to even
RoundHalfEven(n, d) ==
    LET a == IF n < 0 THEN -n ELSE n
        q == a \div d
        r == a % d
        m == IF 2 * r > d \/ (2 * r = d /\ q % 2 = 1) THEN q + 1 ELSE q
    IN  IF n < 0 THEN -m ELSE m

FLe(a, b) == ~IsNaN(a) /\ ~IsNaN(b) /\ Ord(a) <= Ord(b)
FLt(a, b) == ~IsNaN(a) /\ ~IsNaN(b) /\ Ord(a) < Ord(b)
FGe(a, b) == FLe(b, a)

FNeg(a) == [k |-> a.k, v |-> -a.v]

FAdd(a, b) ==
    IF IsNaN(a) \/ IsNaN(b) THEN NaN
    ELSE IF IsInf(a) /\ IsInf(b) THEN (IF a.v = b.v THEN a ELSE NaN)
    ELSE IF IsInf(a) THEN a
    ELSE IF IsInf(b) THEN b
    ELSE Norm(a.v + b.v)

FSub(a, b) == FAdd(a, FNeg(b))

FMul(a, b) ==
    IF IsNaN(a) \/ IsNaN(b) THEN NaN
    ELSE IF IsInf(a) \/ IsInf(b)
         THEN (IF Sign(a) * Sign(b) = 0 THEN NaN
               ELSE IF Sign(a) * Sign(b) > 0 THEN PInf ELSE NInf)
    ELSE Norm(RoundHalfEven(a.v * b.v, Scale))

\* float * int: the int operand is converted exactly, then the product is taken
FMulInt(a, q) ==
    IF IsNaN(a) THEN NaN
    ELSE IF IsInf(a)
         THEN (IF q = 0 THEN NaN ELSE IF a.v * q > 0 THEN PInf ELSE NInf)
    ELSE Norm(a.v * q)

\* round(x, 2): a non-finite float is returned as it is
Round2(x) ==
    IF x.k # "fin" THEN x
    ELSE Norm(RoundHalfEven(x.v, Scale \div 100) * (Scale \div 100))

Zero == Fin(0)
One == Fin(Scale)

\* ---- constants ----
TAX_RATE == Fin(19 * (Scale \div 100))
MAX_DISCOUNT_PCT == Fin(50 * (Scale \div 100))

\* ---- values ----
NoPolicy == [kind |-> "None", percent |-> Zero, truthy |-> FALSE, ret |-> Zero]
PercentagePolicy(percent) ==
    [kind |-> "PercentageDiscountPolicy", percent |-> percent, truthy |-> TRUE, ret |-> Zero]
\* any other object with an apply method: what it returns and its truth value are its own
CustomPolicy(truthy, ret) ==
    [kind |-> "custom", percent |-> Zero, truthy |-> truthy, ret |-> ret]

Item(price, qty) == [price |-> price, qty |-> qty]
NoItems == [none |-> TRUE, list |-> <<>>]
Items(list) == [none |-> FALSE, list |-> list]

Raise(exc) == [outcome |-> exc, val |-> NaN]
Return(val) == [outcome |-> "return", val |-> val]

\* ---- PercentageDiscountPolicy ----
\* faulty variant: the upper end of the range excluded
PostInitStrict(percent) == FLe(Zero, percent) /\ FLt(percent, MAX_DISCOUNT_PCT)

PostInitOk(percent) == FLe(Zero, percent) /\ FLe(percent, MAX_DISCOUNT_PCT)

\* the constructor: the frozen dataclass, then __post_init__
PercentageDiscountPolicy(percent) ==
    IF ~PostInitOk(percent)
    THEN [outcome |-> "ValueError", obj |-> NoPolicy]
    ELSE [outcome |-> "return", obj |-> PercentagePolicy(percent)]

apply(self, subtotal) ==
    IF FLt(subtotal, Zero) THEN Raise("ValueError")
    ELSE Return(FMul(subtotal, self.percent))

\* discount.apply(subtotal), dispatched on the object passed
PolicyApply(discount, subtotal) ==
    IF discount.kind = "PercentageDiscountPolicy" THEN apply(discount, subtotal)
    ELSE Return(discount.ret)

\* ---- currency_symbol ----
\* strings returned are sequences of Unicode code points
Dollar == <<36>>
SourceEuroLiteral == <<226, 8218, 172>>

currency_symbol(currency) ==
    IF currency = "USD" THEN [outcome |-> "return", sym |-> Dollar]
    ELSE IF currency = "EUR" THEN [outcome |-> "return", sym |-> SourceEuroLiteral]
    ELSE [outcome |-> "ValueError", sym |-> <<>>]

\* ---- compute_total, stage by stage ----
\* faulty variant: a zero quantity let through
ItemInvalidNegQty(it) == FLt(it.price, Zero) \/ it.qty < 0

\* faulty variant: the quantity not validated
ItemInvalidPriceOnly(it) == FLt(it.price, Zero)

ItemInvalid(it) == FLt(it.price, Zero) \/ it.qty <= 0

\* faulty variant: the quantity left out of the sum
AccumulateNoQty(acc, it) == FAdd(acc, it.price)

Accumulate(acc, it) == FAdd(acc, FMulInt(it.price, it.qty))

\* `if discount`: the truth value of the object, None being false
Truthy(discount) == discount.kind # "None" /\ discount.truthy

\* faulty variant: a negative discount let through
DiscountUpperOnly(d, sub) == FLe(d, sub)

DiscountInBounds(d, sub) == FLe(Zero, d) /\ FLe(d, sub)

\* faulty variant: the discount added instead of subtracted
TaxedAdded(sub, d) == FMul(FAdd(sub, d), FAdd(One, TAX_RATE))

Taxed(sub, d) == FMul(FSub(sub, d), FAdd(One, TAX_RATE))

TaxedOk(t) == FGe(t, Zero)

\* the for loop from position i on: the first invalid item raises
RECURSIVE Loop(_, _, _)
Loop(list, i, acc) ==
    IF i > Len(list) THEN [bad |-> FALSE, subtotal |-> acc]
    ELSE IF ItemInvalid(list[i]) THEN [bad |-> TRUE, subtotal |-> acc]
    ELSE Loop(list, i + 1, Accumulate(acc, list[i]))

\* the whole call, as a function of its arguments
compute_total(its, disc) ==
    IF its.none THEN Raise("ValueError")
    ELSE LET l == Loop(its.list, 1, Zero) IN
         IF l.bad THEN Raise("ValueError")
         ELSE LET a == IF Truthy(disc) THEN PolicyApply(disc, l.subtotal) ELSE Return(Zero) IN
              IF a.outcome # "return" THEN a
              ELSE IF ~DiscountInBounds(a.val, l.subtotal) THEN Raise("AssertionError")
              ELSE LET t == Taxed(l.subtotal, a.val) IN
                   IF ~TaxedOk(t) THEN Raise("AssertionError")
                   ELSE Return(Round2(t))

\* ---- inputs ----
PriceStep == Scale \div 2
PctStep == Scale \div 10

Prices == {Fin(k * PriceStep) : k \in -1..MaxPrice}
Qtys == -1..MaxQty
ItemInputs == {Item(p, q) : p \in Prices, q \in Qtys}
ItemLists == UNION {[1..n -> ItemInputs] : n \in 0..MaxItems}
ItemsInputs == {NoItems} \cup {Items(l) : l \in ItemLists}

PercentInputs == {Fin(n) : n \in -PctMargin..(Scale \div 2 + PctMargin)}

\* the PercentageDiscountPolicy objects a caller can hold: those the constructor returned
PercentagePolicies ==
    {PercentageDiscountPolicy(p).obj :
        p \in {x \in PercentInputs :
                 x.v % PctStep = 0 /\ PercentageDiscountPolicy(x).outcome = "return"}}

CustomReturns == {Fin(-PriceStep), Zero, Fin(PriceStep), Fin(FloatMax), PInf, NaN}
CustomPolicies == {CustomPolicy(t, r) : t \in BOOLEAN, r \in CustomReturns}

DiscountInputs == {NoPolicy} \cup PercentagePolicies \cup CustomPolicies

ApplySubtotals == {Fin(k * PriceStep) : k \in -2..(2 * MaxWhole)}

CurrencyInputs == {"USD", "EUR", "GBP", "JPY", ""}

\* ---- state ----
VARIABLES
    pc,             \* where the caller or the running compute_total is
    percent,        \* argument of the last constructor call
    obj,            \* what the last constructor call returned
    currency,       \* argument of the last currency_symbol call
    symbol,         \* what it returned
    items,          \* compute_total's arguments
    discount,
    idx,            \* position of the for loop in items
    subtotal,       \* compute_total's locals
    discount_value,
    taxed,
    outcome,        \* how the last call ended: "return" or the exception raised
    total,          \* the value returned
    applied         \* the calls of apply: how many, and the last one's self, argument and result

vars == <<pc, percent, obj, currency, symbol, items, discount, idx, subtotal,
          discount_value, taxed, outcome, total, applied>>

NotApplied == [n |-> 0, self |-> NoPolicy, arg |-> Zero, res |-> Raise("none")]

Init ==
    /\ pc = "idle"
    /\ percent = Zero
    /\ obj = NoPolicy
    /\ currency = ""
    /\ symbol = <<>>
    /\ items = NoItems
    /\ discount = NoPolicy
    /\ idx = 0
    /\ subtotal = Zero
    /\ discount_value = Zero
    /\ taxed = Zero
    /\ outcome = "none"
    /\ total = Zero
    /\ applied = NotApplied

\* the caller drops the last call's result
Forget ==
    /\ pc \in {"constructed", "applied", "looked_up", "done"}
    /\ pc' = "idle"
    /\ percent' = Zero
    /\ obj' = NoPolicy
    /\ currency' = ""
    /\ symbol' = <<>>
    /\ items' = NoItems
    /\ discount' = NoPolicy
    /\ idx' = 0
    /\ subtotal' = Zero
    /\ discount_value' = Zero
    /\ taxed' = Zero
    /\ outcome' = "none"
    /\ total' = Zero
    /\ applied' = NotApplied

\* PercentageDiscountPolicy(percent)
Construct ==
    /\ pc = "idle"
    /\ \E p \in PercentInputs :
         LET r == PercentageDiscountPolicy(p) IN
         /\ percent' = p
         /\ obj' = r.obj
         /\ outcome' = r.outcome
    /\ pc' = "constructed"
    /\ UNCHANGED <<currency, symbol, items, discount, idx, subtotal, discount_value,
                   taxed, total, applied>>

\* policy.apply(subtotal), called by any caller on a constructed policy
CallApply ==
    /\ pc = "idle"
    /\ \E self \in PercentagePolicies, s \in ApplySubtotals :
         LET r == apply(self, s) IN
         /\ applied' = [n |-> 1, self |-> self, arg |-> s, res |-> r]
         /\ outcome' = r.outcome
    /\ pc' = "applied"
    /\ UNCHANGED <<percent, obj, currency, symbol, items, discount, idx, subtotal,
                   discount_value, taxed, total>>

\* currency_symbol(currency)
CallCurrencySymbol ==
    /\ pc = "idle"
    /\ \E c \in CurrencyInputs :
         LET r == currency_symbol(c) IN
         /\ currency' = c
         /\ symbol' = r.sym
         /\ outcome' = r.outcome
    /\ pc' = "looked_up"
    /\ UNCHANGED <<percent, obj, items, discount, idx, subtotal, discount_value,
                   taxed, total, applied>>

\* compute_total(items, discount) is entered
CallComputeTotal ==
    /\ pc = "idle"
    /\ \E its \in ItemsInputs, d \in DiscountInputs :
         /\ items' = its
         /\ discount' = d
    /\ pc' = "check_none"
    /\ UNCHANGED <<percent, obj, currency, symbol, idx, subtotal, discount_value,
                   taxed, outcome, total, applied>>

\* if items is None: raise ValueError; subtotal = 0.0
CheckNone ==
    /\ pc = "check_none"
    /\ IF items.none
       THEN /\ outcome' = "ValueError"
            /\ pc' = "done"
            /\ UNCHANGED <<idx, subtotal>>
       ELSE /\ subtotal' = Zero
            /\ idx' = 1
            /\ pc' = "loop"
            /\ UNCHANGED outcome
    /\ UNCHANGED <<percent, obj, currency, symbol, items, discount, discount_value,
                   taxed, total, applied>>

\* one pass of the for loop
LoopStep ==
    /\ pc = "loop"
    /\ idx <= Len(items.list)
    /\ IF ItemInvalid(items.list[idx])
       THEN /\ outcome' = "ValueError"
            /\ pc' = "done"
            /\ UNCHANGED <<idx, subtotal>>
       ELSE /\ subtotal' = Accumulate(subtotal, items.list[idx])
            /\ idx' = idx + 1
            /\ UNCHANGED <<pc, outcome>>
    /\ UNCHANGED <<percent, obj, currency, symbol, items, discount, discount_value,
                   taxed, total, applied>>

\* discount_value = discount.apply(subtotal) if discount else 0.0
ApplyDiscount ==
    /\ pc = "loop"
    /\ idx > Len(items.list)
    /\ IF Truthy(discount)
       THEN LET r == PolicyApply(discount, subtotal) IN
            /\ applied' = [n |-> applied.n + 1, self |-> discount, arg |-> subtotal, res |-> r]
            /\ IF r.outcome = "return"
               THEN /\ discount_value' = r.val
                    /\ pc' = "check_discount"
                    /\ UNCHANGED outcome
               ELSE /\ outcome' = r.outcome
                    /\ pc' = "done"
                    /\ UNCHANGED discount_value
       ELSE /\ discount_value' = Zero
            /\ pc' = "check_discount"
            /\ UNCHANGED <<applied, outcome>>
    /\ UNCHANGED <<percent, obj, currency, symbol, items, discount, idx, subtotal,
                   taxed, total>>

\* if not (0.0 <= discount_value <= subtotal): raise AssertionError
CheckDiscount ==
    /\ pc = "check_discount"
    /\ IF ~DiscountInBounds(discount_value, subtotal)
       THEN /\ outcome' = "AssertionError"
            /\ pc' = "done"
       ELSE /\ pc' = "tax"
            /\ UNCHANGED outcome
    /\ UNCHANGED <<percent, obj, currency, symbol, items, discount, idx, subtotal,
                   discount_value, taxed, total, applied>>

\* taxed = (subtotal - discount_value) * (1.0 + TAX_RATE); assert taxed >= 0.0
ApplyTax ==
    /\ pc = "tax"
    /\ taxed' = Taxed(subtotal, discount_value)
    /\ IF ~TaxedOk(taxed')
       THEN /\ outcome' = "AssertionError"
            /\ pc' = "done"
       ELSE /\ pc' = "round"
            /\ UNCHANGED outcome
    /\ UNCHANGED <<percent, obj, currency, symbol, items, discount, idx, subtotal,
                   discount_value, total, applied>>

\* return round(taxed, 2)
ReturnTotal ==
    /\ pc = "round"
    /\ total' = Round2(taxed)
    /\ outcome' = "return"
    /\ pc' = "done"
    /\ UNCHANGED <<percent, obj, currency, symbol, items, discount, idx, subtotal,
                   discount_value, taxed, applied>>

Next ==
    \/ Construct
    \/ CallApply
    \/ CallCurrencySymbol
    \/ CallComputeTotal
    \/ CheckNone
    \/ LoopStep
    \/ ApplyDiscount
    \/ CheckDiscount
    \/ ApplyTax
    \/ ReturnTotal
    \/ Forget

Spec == Init /\ [][Next]_vars

\* the staged run and the function of the arguments agree on every finished call
StagedAgrees ==
    pc = "done" =>
        LET r == compute_total(items, discount) IN
        /\ outcome = r.outcome
        /\ outcome = "return" => total = r.val

\* ---- what the claims speak of ----
\* a valid item list: a list, every item with price >= 0 and quantity > 0
ValidItems(its) ==
    /\ ~its.none
    /\ \A i \in 1..Len(its.list) : its.list[i].price.v >= 0 /\ its.list[i].qty > 0

HasInvalidItem(its) ==
    /\ ~its.none
    /\ \E i \in 1..Len(its.list) : its.list[i].price.v < 0 \/ its.list[i].qty <= 0

\* the sum of price * quantity over the first n items
RECURSIVE SumOfItems(_, _)
SumOfItems(list, n) ==
    IF n = 0 THEN Zero
    ELSE FAdd(SumOfItems(list, n - 1), FMulInt(list[n].price, list[n].qty))

InRange(d, sub) == ~IsNaN(d) /\ ~IsNaN(sub) /\ 0 <= Ord(d) /\ Ord(d) <= Ord(sub)

HalfPercent == Scale \div 2

InComputeTotal == pc \in {"check_none", "loop", "check_discount", "tax", "round", "done"}

\* C1: with valid items and no discount policy, compute_total returns
\* round(subtotal * 1.19, 2), subtotal being the sum of price * quantity;
\* for the empty list that total is 0.
C1_NoDiscountTotal ==
    (pc = "done" /\ ValidItems(items) /\ discount = NoPolicy) =>
        /\ outcome = "return"
        /\ total = Round2(FMul(SumOfItems(items.list, Len(items.list)),
                               Fin(119 * (Scale \div 100))))
        /\ items.list = <<>> => total = Zero

C1_Witness ==
    /\ pc = "done"
    /\ discount = NoPolicy
    /\ ValidItems(items)
    /\ Len(items.list) = 2
    /\ items.list[1].qty = 2
    /\ outcome = "return"
    /\ total.k = "fin"
    /\ total.v > 0
    /\ total # taxed

\* C2: compute_total raises ValueError and returns no total whenever items is
\* None or some item, at any position, has price < 0 or quantity <= 0,
\* whatever the other items and the discount policy are.
C2_InvalidInputRaises ==
    (pc = "done" /\ (items.none \/ HasInvalidItem(items))) =>
        /\ outcome = "ValueError"
        /\ total = Zero
        /\ taxed = Zero

C2_Witness ==
    /\ pc = "done"
    /\ ~items.none
    /\ Len(items.list) = 2
    /\ items.list[1].price.v > 0
    /\ items.list[1].qty > 0
    /\ items.list[2].price.v >= 0
    /\ items.list[2].qty = 0
    /\ subtotal.v > 0
    /\ discount.kind = "PercentageDiscountPolicy"
    /\ outcome = "ValueError"

C4_AppliedWheneverSupplied ==
    pc \in {"check_discount", "tax", "round"} =>
        IF discount.kind # "None"
        THEN /\ applied.n = 1
             /\ applied.arg = subtotal
             /\ applied.res = Return(discount_value)
        ELSE /\ applied.n = 0
             /\ discount_value = Zero

\* C5: PercentageDiscountPolicy(percent) raises ValueError for every
\* percent < 0 and every percent > 0.50 and succeeds for every percent in
\* [0.0, 0.50], both ends included; every policy object there is has its
\* percent in [0.0, 0.50].
C5_PercentRange ==
    /\ pc = "constructed" =>
          /\ (percent.v < 0 \/ percent.v > HalfPercent) => outcome = "ValueError"
          /\ (0 <= percent.v /\ percent.v <= HalfPercent) =>
                 (outcome = "return" /\ obj = PercentagePolicy(percent))
    /\ \A o \in {obj, discount, applied.self} :
          o.kind = "PercentageDiscountPolicy" =>
              (o.percent.k = "fin" /\ 0 <= o.percent.v /\ o.percent.v <= HalfPercent)

C5_Witness ==
    /\ pc = "constructed"
    /\ percent = Fin(HalfPercent)
    /\ outcome = "return"
    /\ obj.kind = "PercentageDiscountPolicy"
    /\ obj.percent = Fin(HalfPercent)

\* C6: for every constructed PercentageDiscountPolicy and every subtotal,
\* apply raises ValueError if subtotal < 0 and otherwise returns
\* subtotal * percent, a discount with 0 <= discount <= subtotal.
C6_ApplyContract ==
    (applied.n > 0 /\ applied.self.kind = "PercentageDiscountPolicy") =>
        IF FLt(applied.arg, Zero)
        THEN applied.res.outcome = "ValueError"
        ELSE /\ applied.res = Return(FMul(applied.arg, applied.self.percent))
             /\ InRange(applied.res.val, applied.arg)

\* C7: for fixed valid items, the total does not increase as percent
\* increases over [0, 0.50], rounding to two decimals included: a call with
\* no smaller percent returns no larger total.
C7_MonotoneInPercent ==
    (pc = "done" /\ ValidItems(items) /\ discount.kind = "PercentageDiscountPolicy"
        /\ outcome = "return") =>
        \A p1 \in PercentagePolicies :
            LET r == compute_total(items, p1) IN
            (FLe(p1.percent, discount.percent) /\ r.outcome = "return") =>
                FLe(total, r.val)

C7_Witness ==
    /\ pc = "done"
    /\ ValidItems(items)
    /\ discount = PercentagePolicy(Fin(HalfPercent))
    /\ outcome = "return"
    /\ total # taxed
    /\ LET r == compute_total(items, PercentagePolicy(Fin(4 * PctStep))) IN
       r.outcome = "return" /\ FLt(total, r.val)

\* C8: currency_symbol returns "$" for "USD" and the euro sign U+20AC for
\* "EUR", and raises ValueError for every other code.
C8_CurrencySymbols ==
    pc = "looked_up" =>
        /\ currency = "USD" => (outcome = "return" /\ symbol = <<36>>)
        /\ currency = "EUR" => (outcome = "return" /\ symbol = <<8364>>)
        /\ currency \notin {"USD", "EUR"} => outcome = "ValueError"

\* C9: with valid items and a conforming policy (None or a constructed
\* PercentageDiscountPolicy) neither internal check fails: the call returns a
\* total, and the total is >= 0.
C9_ConformingNeverAsserts ==
    (pc = "done" /\ ValidItems(items)
        /\ discount.kind \in {"None", "PercentageDiscountPolicy"}) =>
        /\ outcome = "return"
        /\ FGe(total, Zero)

\* C10: in a call of compute_total, apply is invoked at most once and only
\* after the None check and the validation of every item have passed; with an
\* invalid item the policy, conforming or not, is never called and the call
\* ends with ValueError, not AssertionError.
C10_ApplyAfterValidation ==
    InComputeTotal =>
        /\ applied.n <= 1
        /\ applied.n = 1 =>
               /\ ValidItems(items)
               /\ idx = Len(items.list) + 1
               /\ pc \in {"check_discount", "tax", "round", "done"}
        /\ (pc = "done" /\ HasInvalidItem(items)) =>
               (applied.n = 0 /\ outcome = "ValueError")

C10_Witness ==
    /\ pc = "done"
    /\ ~items.none
    /\ Len(items.list) = 2
    /\ items.list[1].qty > 0
    /\ items.list[1].price.v >= 0
    /\ items.list[2].price.v < 0
    /\ discount = CustomPolicy(TRUE, Fin(-PriceStep))
    /\ applied.n = 0
    /\ outcome = "ValueError"

====
